---- MODULE Spec2Model ----
(***************************************************************************)
(* The three-phase reasoning pipeline of the AI orchestrator:              *)
(*   src/core/orchestrator.py     AIOrchestrator (process_query, phases)   *)
(*   src/core/reasoning_state.py  ReasoningState, ReasoningStep            *)
(*   src/main.py                  orchestrate (caller, answer extraction)  *)
(*   src/agents/protocol_agent.py ProtocolAgent (analyze_metrics)          *)
(*                                                                         *)
(* Seven specifications are defined over the same variables.               *)
(*   Spec            the request path as written: orchestrate builds an    *)
(*                   AIOrchestrator and calls process_query.               *)
(*   PipelineSpec    the body of process_query's try block (lines 210-220) *)
(*                   and the answer extraction of orchestrate, started on  *)
(*                   a ReasoningState built with the dataclass's fields.   *)
(*   StateSpec       a ReasoningState with its methods called in any       *)
(*                   order.                                                *)
(*   ExecutionSpec   _execution_phase called on the states a Planning      *)
(*                   phase may hand it.                                    *)
(*   RuleSpec        a ProtocolAgent built from a rule table and asked     *)
(*                   to analyze a metric set.                              *)
(*   LogSpec         a ProtocolAgent asked to analyze one error log.       *)
(*   ConcurrentSpec  two requests whose try blocks are interleaved, each   *)
(*                   with the AIOrchestrator and the ReasoningState its    *)
(*                   orchestrate call builds.                              *)
(*                                                                         *)
(* Python raises NameError for a name the module never binds,              *)
(* AttributeError for a method an object does not have and TypeError for a *)
(* call that does not fit the signature.  The tables below list what the   *)
(* source binds and defines; the actions consult them where the code uses  *)
(* a name, so each such exception appears where the interpreter raises it. *)
(*                                                                         *)
(* Confidences are kept as integers in units of 1/6000, so that the mean   *)
(* of up to six steps (the most one run appends) is an exact integer.      *)
(* Russian keywords and messages are written in ASCII with a "ru:" prefix. *)
(***************************************************************************)
EXTENDS Integers, Sequences, FiniteSets, TLC

VARIABLES
    pc,                 \* position of the request in orchestrate / process_query
    user_query,         \* the query: the set of fallback keywords occurring in it
    result,             \* what process_query handed its caller
    http_status,        \* what orchestrate answered
    answer,             \* the answer text orchestrate extracted
    state,              \* the ReasoningState of the session
    llm_outcome,        \* per phase, what the LLM call of that phase did
    data_requirements,  \* local of _execution_phase
    idx,                \* position of the collection loop in data_requirements
    raw_data,           \* local of _execution_phase: tag -> collected data
    successful_types,   \* local of _execution_phase
    failed_types,       \* local of _execution_phase
    rules,              \* ProtocolAgent.rules: the rule table of a rule engine
    metrics,            \* the metric set handed to analyze_metrics
    analysis,           \* what the latest call of analyze_metrics returned
    previous_analysis,  \* what the call before it returned
    error_log,          \* the log record handed to analyze_error_log
    log_analysis,       \* what analyze_error_log returned for it
    orchestrator,       \* main.py's module global `orchestrator`
    orchestrators,      \* the AIOrchestrator objects built so far
    objects,            \* the ReasoningState objects built so far
    requests            \* concurrent requests: the frame of each orchestrate call

vars == <<pc, user_query, result, http_status, answer, state, llm_outcome,
          data_requirements, idx, raw_data, successful_types, failed_types,
          rules, metrics, analysis, previous_analysis, error_log, log_analysis,
          orchestrator, orchestrators, objects, requests>>

-----------------------------------------------------------------------------
(* Bounds *)

\* A query holds at most this many of the fallback's keywords.
MaxKeywords == 2

\* A ReasoningState driven through its methods alone takes at most this many
\* steps and this many error messages.
MaxSteps == 3
MaxErrors == 2

\* A rule engine is asked for at most this many analyses of its metric set.
MaxCalls == 2

-----------------------------------------------------------------------------
(* What the source binds and defines *)

\* Names bound at module level in orchestrator.py (imports and the class).
ModuleNames ==
    {"uuid", "time", "os", "Dict", "Any", "Optional", "datetime", "load_dotenv",
     "ChatOpenAI", "HumanMessage", "SystemMessage", "ReasoningState",
     "ReasoningStep", "ReasoningPhase", "tracer", "DataAgent", "ProtocolAgent",
     "AIOrchestrator"}

NameDefined(name) == name \in ModuleNames

\* Fields of the ReasoningState dataclass: the keywords its __init__ accepts.
StateFields ==
    {"session_id", "user_query", "current_phase", "request_type",
     "reasoning_steps", "context", "raw_data", "processed_data",
     "collected_data", "planning_results", "identified_issues",
     "recommendations", "action_plan", "start_time", "last_update",
     "total_confidence", "is_complete", "has_errors", "error_messages"}

\* Fields without a default: __init__ requires them.
RequiredStateFields == {"session_id", "user_query"}

\* Keywords process_query passes to ReasoningState(...).
ProcessQueryCtorKwargs == {"session_id", "user_query", "timestamp"}

\* Methods and instance attributes of a DataAgent.
DataAgentAttrs ==
    {"__init__", "_epoch_seconds", "DataFormatter", "_get_metrics", "_get_logs",
     "_save_data", "extract_error_logs", "extract_metrics",
     "get_critical_errors", "get_available_metrics_list", "get_metrics",
     "get_service_summary", "format_data_for_analysis", "get_error_logs",
     "execute_query", "collect_selective_data", "get_data_type_info",
     "logger", "formatter", "data", "DD_API_KEY", "DD_APP_KEY", "DATADOG_SITE",
     "API_BASE", "HEADERS", "collection_stats", "datadog_client"}

\* Methods and instance attributes of a ProtocolAgent.
ProtocolAgentAttrs ==
    {"__init__", "analyze_error_log", "analyze_logs", "analyze_metrics",
     "analyze_data_batch", "_generate_generic_recommendations",
     "get_action_plan", "analyze_selective_data",
     "_calculate_collection_success_rate", "_estimate_resolution_time",
     "generate_recommendations", "_determine_severity", "_categorize_error",
     "_get_immediate_actions", "default_rules", "rules"}

\* ProtocolAgent.generate_recommendations(self, analysis_data): the number of
\* positional arguments it takes besides self.
GenerateRecommendationsArity == 1

\* Methods and instance attributes of an AIOrchestrator.
OrchestratorAttrs ==
    {"__init__", "_determine_data_requirements_fallback",
     "_determine_request_type", "process_query", "_planning_phase",
     "_execution_phase", "_feedback_phase", "get_session_summary",
     "llm", "data_agent", "protocol_agent", "system_prompts"}

-----------------------------------------------------------------------------
(* Dictionaries: functions from keys to values *)

EmptyDict == <<>>

HasKey(d, k) == k \in DOMAIN d

\* d.get(k, default)
Get(d, k, default) == IF k \in DOMAIN d THEN d[k] ELSE default

\* d[k] = v
Put(d, k, v) == [x \in (DOMAIN d) \cup {k} |-> IF x = k THEN v ELSE d[x]]

\* item in list
InSeq(x, s) == \E i \in 1..Len(s) : s[i] = x

RECURSIVE SumConfidence(_)
SumConfidence(steps) ==
    IF steps = <<>> THEN 0
    ELSE steps[1].confidence + SumConfidence(Tail(steps))

-----------------------------------------------------------------------------
(* The query and the keyword fallback *)

\* The keyword lists of _determine_data_requirements_fallback.
CpuKeywords == {"cpu", "ru:protsessor", "load", "ru:nagruzka", "ru:zagruzhen", "ru:zagruzka"}
MemoryKeywords == {"memory", "ru:pamyat", "ram", "swap"}
DiskKeywords == {"disk", "ru:disk", "storage", "ru:khranilishche", "io"}
NetworkKeywords == {"network", "ru:set", "traffic", "ru:trafik", "connection"}
ErrorKeywords == {"error", "ru:oshibka", "log", "ru:log", "exception"}
PerformanceKeywords == {"performance", "ru:proizvoditelnost", "slow", "ru:medlenno"}
ServerKeywords == {"ru:server", "server", "ru:zagruzhen", "loaded"}

AllKeywords ==
    CpuKeywords \cup MemoryKeywords \cup DiskKeywords \cup NetworkKeywords
        \cup ErrorKeywords \cup PerformanceKeywords \cup ServerKeywords

\* `keyword in query_lower` is a substring test: a query that holds a keyword
\* holds every keyword that is a substring of it.
SubstringsOf(k) ==
    CASE k = "connection" -> {"connection", "io"}
      [] k = "exception" -> {"exception", "io"}
      [] k = "loaded" -> {"loaded", "load"}
      [] OTHER -> {k}

SubstringClosure(ks) == UNION {SubstringsOf(k) : k \in ks}

\* The sets of at most n keywords.
RECURSIVE KeywordSets(_)
KeywordSets(n) ==
    IF n = 0 THEN {{}}
    ELSE LET smaller == KeywordSets(n - 1)
         IN  smaller \cup {s \cup {k} : s \in smaller, k \in AllKeywords}

\* The queries of the model: what a query of at most MaxKeywords keywords holds.
Queries == {SubstringClosure(ks) : ks \in KeywordSets(MaxKeywords)}

\* "why is the server slow?"
ServerSlowQuery == {"server", "slow"}

\* any(keyword in query_lower for keyword in [...])
AnyKeyword(query, keywords) == query \cap keywords # {}

\* Mutant of AppendIfAbsent: the tag is appended without the membership test.
AppendAlways(requirements, tag) == Append(requirements, tag)

\* requirements.append(tag) when tag is not yet in requirements
AppendIfAbsent(requirements, tag) ==
    IF InSeq(tag, requirements) THEN requirements ELSE Append(requirements, tag)

FallbackRequirements(query) ==
    LET r1 == IF AnyKeyword(query, CpuKeywords) THEN <<"cpu_metrics">> ELSE <<>>
        r2 == IF AnyKeyword(query, MemoryKeywords) THEN Append(r1, "memory_metrics") ELSE r1
        r3 == IF AnyKeyword(query, DiskKeywords) THEN Append(r2, "disk_metrics") ELSE r2
        r4 == IF AnyKeyword(query, NetworkKeywords) THEN Append(r3, "network_metrics") ELSE r3
        r5 == IF AnyKeyword(query, ErrorKeywords) THEN Append(r4, "error_logs") ELSE r4
        r6 == IF AnyKeyword(query, PerformanceKeywords)
              THEN AppendIfAbsent(AppendIfAbsent(Append(r5, "performance_logs"),
                                                 "cpu_metrics"), "memory_metrics")
              ELSE r5
        r7 == IF AnyKeyword(query, ServerKeywords)
              THEN AppendIfAbsent(AppendIfAbsent(AppendIfAbsent(AppendIfAbsent(r6,
                       "cpu_metrics"), "memory_metrics"), "disk_metrics"), "network_metrics")
              ELSE r6
    IN  IF r7 = <<>> THEN <<"cpu_metrics", "memory_metrics">> ELSE r7

\* The dictionary _determine_data_requirements_fallback returns.
DetermineDataRequirementsFallback(query) ==
    [k \in {"user_intent", "analysis_plan", "data_requirements", "target_services", "priority"} |->
        CASE k = "user_intent" -> <<"ru:zapros informatsii o sostoyanii sistemy">>
          [] k = "analysis_plan" -> <<"fallback_analysis_plan">>
          [] k = "data_requirements" -> FallbackRequirements(query)
          [] k = "target_services" -> <<"system">>
          [] k = "priority" -> <<"high">>]

-----------------------------------------------------------------------------
(* ReasoningState *)

\* The state the dataclass builds from session_id and user_query: every other
\* field takes its default.
NewReasoningState ==
    [current_phase |-> "planning",
     reasoning_steps |-> <<>>,
     processed_data |-> EmptyDict,
     planning_results |-> EmptyDict,
     identified_issues |-> <<>>,
     recommendations |-> <<>>,
     action_plan |-> <<>>,
     total_confidence |-> 0,
     is_complete |-> FALSE,
     has_errors |-> FALSE,
     error_messages |-> <<>>]

\* Before any ReasoningState exists.
NoState == [exists |-> FALSE]

\* ReasoningState(**kwargs) raises TypeError unless every keyword is a field
\* and every field without a default is given.
CtorAccepts(kwargs) == kwargs \subseteq StateFields /\ RequiredStateFields \subseteq kwargs

\* Mutant of AddReasoningStep: the mean is updated as a running average of the
\* old mean and the new confidence.
AddReasoningStepRunningAverage(st, step) ==
    [st EXCEPT !.reasoning_steps = Append(st.reasoning_steps, step),
               !.total_confidence = IF st.reasoning_steps = <<>>
                                    THEN step.confidence
                                    ELSE (st.total_confidence + step.confidence) \div 2]

\* Mutant of AddReasoningStep: the newest step is put first.
AddReasoningStepNewestFirst(st, step) ==
    LET steps == <<step>> \o st.reasoning_steps
    IN  [st EXCEPT !.reasoning_steps = steps,
                   !.total_confidence = SumConfidence(steps) \div Len(steps)]

\* ReasoningState.add_reasoning_step
AddReasoningStep(st, step) ==
    LET steps == Append(st.reasoning_steps, step)
    IN  [st EXCEPT !.reasoning_steps = steps,
                   !.total_confidence = SumConfidence(steps) \div Len(steps)]

\* Mutant of AddError: the message list is assigned instead of appended to.
AddErrorKeepsLatest(st, msg) ==
    [st EXCEPT !.has_errors = TRUE,
               !.error_messages = <<msg>>]

\* Mutant of AddError: the message is appended and the flag left as it was.
AddErrorWithoutFlag(st, msg) ==
    [st EXCEPT !.error_messages = Append(st.error_messages, msg)]

\* ReasoningState.add_error
AddError(st, msg) ==
    [st EXCEPT !.has_errors = TRUE,
               !.error_messages = Append(st.error_messages, msg)]

\* A ReasoningStep, as far as the pipeline and its caller read it.
ReasoningStep(phase, agent_name, output_data, confidence) ==
    [phase |-> phase, agent_name |-> agent_name, output_data |-> output_data,
     confidence |-> confidence]

\* The message a phase's except clause builds: its prefix names the phase,
\* str(e) is the text of the exception.
ErrorMessage(phase, exc) == [phase |-> phase, error |-> exc]

-----------------------------------------------------------------------------
(* Confidence values the phases give their steps, in units of 1/6000 *)

PlanningConfidence == 4800            \* 0.8
DataConfidenceComplete == 5400        \* 0.9
DataConfidencePartial == 4200         \* 0.7
ProtocolConfidence == 4800            \* 0.8
LLMFallbackConfidence == 3000         \* 0.5
LLMDefaultConfidence == 4200          \* 0.7
FeedbackProtocolConfidence == 4800    \* 0.8
FeedbackConfidence == 4800            \* 0.8

-----------------------------------------------------------------------------
(* The collaborators *)

Phases == {"planning", "execution", "feedback"}

\* What `await self.llm.ainvoke(messages)` can do: raise, or return a text that
\* is the expected JSON object (bare or in a code fence), a JSON object lacking
\* a required key, or no JSON at all.
LLMOutcomes == {"raises", "json_valid", "json_fenced", "json_missing_key", "not_json"}

NoLLMCall == [p \in Phases |-> "none"]

\* The tags _execution_phase passes to collect_system_metrics and collect_logs.
MetricTags == {"cpu_metrics", "memory_metrics", "disk_metrics", "network_metrics"}
LogTags == {"error_logs", "performance_logs"}

\* data_requirements lists a Planning LLM may return in a valid JSON object.
LLMRequirementLists ==
    {<<"cpu_metrics", "memory_metrics", "disk_metrics">>, <<"error_logs", "metrics">>, <<>>}

\* The planning object parsed from a valid LLM answer.
LLMPlanningData(reqs) ==
    [k \in {"user_intent", "analysis_plan", "data_requirements", "target_services", "priority"} |->
        CASE k = "user_intent" -> <<"monitoring">>
          [] k = "analysis_plan" -> <<"llm_analysis_plan">>
          [] k = "data_requirements" -> reqs
          [] k = "target_services" -> <<"system">>
          [] k = "priority" -> <<"medium">>]

\* What one call data_agent.<method>(tag) can do.  Looking up a method the
\* DataAgent does not have raises AttributeError inside the loop's try.
CollectorOutcomes(method) ==
    IF method \in DataAgentAttrs THEN {"ok", "fails"} ELSE {"fails"}

\* Confidence values an Execution LLM may put into its JSON object (0.9, 1.5),
\* and <<>> for an object without the key.
LLMConfidenceFields == {<<5400>>, <<9000>>, <<>>}

\* identified_issues lists an Execution LLM may return.
LLMIssueLists == {<<>>, <<"high cpu usage">>}

\* The object parsed from a valid Execution LLM answer.
LLMAnalysis(conf, issues) ==
    LET base == [k \in {"response_type", "main_response", "identified_issues", "analysis_results"} |->
                    CASE k = "response_type" -> <<"monitoring">>
                      [] k = "main_response" -> <<"llm main response">>
                      [] k = "identified_issues" -> issues
                      [] k = "analysis_results" -> <<"llm analysis results">>]
    IN  IF conf = <<>> THEN base ELSE Put(base, "confidence", conf)

\* The object _execution_phase builds when the answer is no JSON.
LLMAnalysisFallback ==
    [k \in {"response_type", "main_response", "system_status", "identified_issues",
            "analysis_results", "confidence"} |->
        CASE k = "response_type" -> <<"analysis">>
          [] k = "main_response" -> <<"raw llm text">>
          [] k = "system_status" -> <<"unknown">>
          [] k = "identified_issues" -> <<>>
          [] k = "analysis_results" -> <<"raw llm text">>
          [] k = "confidence" -> <<LLMFallbackConfidence>>]

\* recommendations lists a Feedback LLM may return.
LLMRecommendationLists == {<<>>, <<"scale the service">>}

\* The object parsed from a valid Feedback LLM answer.
LLMFeedback(recs) ==
    [k \in {"summary", "recommendations", "action_plan", "additional_help", "priority"} |->
        CASE k = "summary" -> <<"llm summary">>
          [] k = "recommendations" -> recs
          [] k = "action_plan" -> <<>>
          [] k = "additional_help" -> <<"llm offer of help">>
          [] k = "priority" -> <<"medium">>]

\* The object _feedback_phase builds when the answer is no JSON.
LLMFeedbackFallback ==
    [k \in {"summary", "recommendations", "action_plan", "additional_help", "priority"} |->
        CASE k = "summary" -> <<"raw llm text">>
          [] k = "recommendations" -> <<>>
          [] k = "action_plan" -> <<>>
          [] k = "additional_help" -> <<"ru:obratites za dopolnitelnoy pomoshchyu">>
          [] k = "priority" -> <<"medium">>]

-----------------------------------------------------------------------------
(* Exceptions and the phases' except clauses *)

LLMUnavailable == "LLMError: the LLM call failed"
JsonNameError == "NameError: name 'json' is not defined"
NoAnalyzeProtocols == "AttributeError: 'ProtocolAgent' object has no attribute 'analyze_protocols'"
AnalyzeProtocolsRaised == "Exception: analyze_protocols raised"
NoFormatDataForLLM == "AttributeError: 'AIOrchestrator' object has no attribute '_format_data_for_llm'"
NoGenerateRecommendations == "AttributeError: 'ProtocolAgent' object has no attribute 'generate_recommendations'"
GenerateRecommendationsArgs == "TypeError: generate_recommendations() takes 2 positional arguments but 3 were given"
AwaitOfList == "TypeError: object list can't be used in 'await' expression"

\* Mutant of PhaseExcept: the except clause also marks the session complete.
PhaseExceptMarksComplete(st, phase, exc) ==
    [AddError(st, ErrorMessage(phase, exc)) EXCEPT !.is_complete = TRUE]

\* `except Exception as e:` of a phase: the error is recorded in the state.
PhaseExcept(st, phase, exc) == AddError(st, ErrorMessage(phase, exc))

\* Mutant of NextAfter: process_query calls Feedback before Execution.
NextAfterFeedbackFirst(phase) ==
    CASE phase = "planning" -> "feedback"
      [] phase = "feedback" -> "execution"
      [] phase = "execution" -> "return"

\* process_query calls the phases one after the other and then returns.
NextAfter(phase) ==
    CASE phase = "planning" -> "execution"
      [] phase = "execution" -> "feedback"
      [] phase = "feedback" -> "return"

\* Mutant of AfterPhaseError: the except clause raises again, and process_query
\* returns without running what follows the phase.
AfterPhaseErrorReraised(phase) == "return"

\* A phase's except clause does not raise again: the phase returns and
\* process_query goes on with what follows the phase.
AfterPhaseError(phase) == NextAfter(phase)

locals == <<data_requirements, idx, raw_data, successful_types, failed_types>>
caller == <<result, http_status, answer>>

\* The variables of one request taken alone, of a rule engine taken alone and
\* of the concurrent requests.
request == <<pc, user_query, state, llm_outcome, locals, caller>>
rule_engine == <<rules, metrics, analysis, previous_analysis, error_log, log_analysis>>
server == <<orchestrator, orchestrators, objects, requests>>

-----------------------------------------------------------------------------
(* The request path as written: orchestrate and process_query *)

\* What orchestrate's steps before process_query can do: the two backend
\* reads and the construction of the AIOrchestrator.
SetupOutcomes ==
    {"ok", "service_not_found", "session_not_found", "unauthorized",
     "backend_error", "orchestrator_failed"}

\* The status of the HTTPException orchestrate raises for a failed setup.
SetupStatus(o) ==
    CASE o \in {"service_not_found", "session_not_found"} -> "404"
      [] o = "unauthorized" -> "401"
      [] OTHER -> "500"

\* orchestrate reads the service and the chat history, builds the
\* AIOrchestrator of the request and calls process_query.
orchestrate_call ==
    /\ pc = "orchestrate"
    /\ \E o \in SetupOutcomes :
        IF o = "ok"
        THEN /\ pc' = "process_query"
             /\ UNCHANGED http_status
        ELSE /\ pc' = "done"
             /\ http_status' = SetupStatus(o)
    /\ UNCHANGED <<user_query, state, llm_outcome, locals, result, answer>>
    /\ UNCHANGED <<rule_engine, server>>

\* process_query builds the ReasoningState, before its try block.
process_query_construct ==
    /\ pc = "process_query"
    /\ IF CtorAccepts(ProcessQueryCtorKwargs)
       THEN /\ state' = NewReasoningState
            /\ pc' = "planning"
            /\ UNCHANGED result
       ELSE /\ result' = "TypeError"
            /\ pc' = "raised"
            /\ UNCHANGED state
    /\ UNCHANGED <<user_query, llm_outcome, locals, http_status, answer>>
    /\ UNCHANGED <<rule_engine, server>>

\* orchestrate's `except Exception` turns what process_query raised into a 500.
orchestrate_except ==
    /\ pc = "raised"
    /\ http_status' = "500"
    /\ pc' = "done"
    /\ UNCHANGED <<user_query, state, llm_outcome, locals, result, answer>>
    /\ UNCHANGED <<rule_engine, server>>

-----------------------------------------------------------------------------
(* Planning *)

\* _planning_phase up to the LLM call; the call is outside the inner try, so
\* what it raises reaches the phase's except clause.
planning_invoke ==
    /\ pc = "planning"
    /\ \E o \in LLMOutcomes :
        /\ llm_outcome' = [llm_outcome EXCEPT !.planning = o]
        /\ IF o = "raises"
           THEN /\ state' = PhaseExcept(state, "planning", LLMUnavailable)
                /\ pc' = AfterPhaseError("planning")
           ELSE /\ state' = state
                /\ pc' = "planning_parse"
    /\ UNCHANGED <<user_query, locals, caller>>
    /\ UNCHANGED <<rule_engine, server>>

\* What the inner try of _planning_phase leaves in planning_data, json being
\* bound: the parsed object, or the keyword fallback after JSONDecodeError or
\* the ValueError of a missing field.
PlanningData(o, query) ==
    IF o \in {"json_valid", "json_fenced"}
    THEN {LLMPlanningData(reqs) : reqs \in LLMRequirementLists}
    ELSE {DetermineDataRequirementsFallback(query)}

\* Step, planning_results and the planning artifact.
CommitPlanning(st, planning_data) ==
    LET st1 == AddReasoningStep(st,
                   ReasoningStep("planning", "PlanningAgent", planning_data, PlanningConfidence))
    IN  [st1 EXCEPT !.planning_results = planning_data,
                    !.processed_data = Put(st1.processed_data, "planning", planning_data)]

\* _planning_phase from the parse of the answer to the end.  json.loads and the
\* except clause's json.JSONDecodeError both read the name json.
planning_parse ==
    /\ pc = "planning_parse"
    /\ IF NameDefined("json")
       THEN /\ \E planning_data \in PlanningData(llm_outcome.planning, user_query) :
                   state' = CommitPlanning(state, planning_data)
            /\ pc' = NextAfter("planning")
       ELSE /\ state' = PhaseExcept(state, "planning", JsonNameError)
            /\ pc' = AfterPhaseError("planning")
    /\ UNCHANGED <<user_query, llm_outcome, locals, caller>>
    /\ UNCHANGED <<rule_engine, server>>

-----------------------------------------------------------------------------
(* Execution *)

\* Mutant of DefaultDataRequirements: the lookup defaults to an empty list.
DefaultDataRequirementsEmpty == <<>>

\* planning_results.get("data_requirements", [...]): the default of the lookup.
DefaultDataRequirements == <<"cpu_metrics", "memory_metrics">>

\* A planning_results that is no dictionary, and isinstance(v, dict).
NotADict == [py_type |-> "list"]
IsDict(v) == "py_type" \notin DOMAIN v

\* The requirements _execution_phase iterates over: those of planning_results,
\* or of the keyword fallback when planning_results is no dictionary.
ExecutionRequirements(st, query) ==
    LET planning_results == IF IsDict(st.planning_results)
                            THEN st.planning_results
                            ELSE DetermineDataRequirementsFallback(query)
    IN  Get(planning_results, "data_requirements", DefaultDataRequirements)

\* _execution_phase up to the collection loop.
execution_begin ==
    /\ pc = "execution"
    /\ data_requirements' = ExecutionRequirements(state, user_query)
    /\ idx' = 1
    /\ raw_data' = EmptyDict
    /\ successful_types' = <<>>
    /\ failed_types' = <<>>
    /\ pc' = "collect"
    /\ UNCHANGED <<user_query, state, llm_outcome, caller>>
    /\ UNCHANGED <<rule_engine, server>>

\* Mutant of IsCollected: the second branch of the loop is an else.
IsCollectedAlways(tag) == TRUE

\* The loop's two membership tests: the tags for which it calls a collector.
IsCollected(tag) == tag \in MetricTags \cup LogTags

\* The method the loop calls for a tag it recognizes.
CollectorMethod(tag) ==
    IF tag \in MetricTags THEN "collect_system_metrics" ELSE "collect_logs"

\* `except Exception as e: failed_types.append(data_type)`
CollectFailed(failed, tag) == Append(failed, tag)

\* Mutant of AfterCollect: a failing call ends the loop.
AfterCollectBreakOnFailure(i, out) ==
    IF out = "fails" THEN Len(data_requirements) + 1 ELSE i + 1

\* The for loop goes on to the next tag whatever the call did.
AfterCollect(i, out) == i + 1

\* One iteration of the collection loop.  A tag of neither group matches no
\* branch: no call, no entry in either list.
collect ==
    /\ pc = "collect"
    /\ idx <= Len(data_requirements)
    /\ LET tag == data_requirements[idx]
       IN  IF IsCollected(tag)
           THEN \E out \in CollectorOutcomes(CollectorMethod(tag)) :
                   /\ IF out = "ok"
                      THEN /\ raw_data' = Put(raw_data, tag, <<"records">>)
                           /\ successful_types' = Append(successful_types, tag)
                           /\ UNCHANGED failed_types
                      ELSE /\ failed_types' = CollectFailed(failed_types, tag)
                           /\ UNCHANGED <<raw_data, successful_types>>
                   /\ idx' = AfterCollect(idx, out)
           ELSE /\ idx' = AfterCollect(idx, "skipped")
                /\ UNCHANGED <<raw_data, successful_types, failed_types>>
    /\ UNCHANGED <<pc, user_query, state, llm_outcome, data_requirements, caller>>
    /\ UNCHANGED <<rule_engine, server>>

\* confidence=0.9 if not failed_types else 0.7
\* Mutant of DataConfidence: the confidence written as a percentage.
DataConfidenceAsPercent(failed) ==
    IF failed = <<>> THEN 90 * 6000 ELSE 70 * 6000

\* The confidence of the data-collection step.
DataConfidence(failed) ==
    IF failed = <<>> THEN DataConfidenceComplete ELSE DataConfidencePartial

\* After the loop: the data collection step.
execution_data_step ==
    /\ pc = "collect"
    /\ idx > Len(data_requirements)
    /\ state' = AddReasoningStep(state,
                    ReasoningStep("execution", "DataAgent", raw_data, DataConfidence(failed_types)))
    /\ pc' = "analyze"
    /\ UNCHANGED <<user_query, llm_outcome, locals, caller>>
    /\ UNCHANGED <<rule_engine, server>>

\* confidence=llm_analysis.get("confidence", 0.7)
LLMStepConfidence(llm_analysis) ==
    Get(llm_analysis, "confidence", <<LLMDefaultConfidence>>)[1]

\* What the parse of the Execution LLM's answer leaves in llm_analysis, json
\* being bound.  A JSON object lacking a key is taken as it is.
ExecutionAnalyses(o) ==
    IF o = "not_json"
    THEN {LLMAnalysisFallback}
    ELSE {LLMAnalysis(conf, issues) : conf \in LLMConfidenceFields, issues \in LLMIssueLists}

\* The LLM step, the execution artifact and the issues.
CommitExecution(st, raw, protocol_analysis, llm_analysis) ==
    LET st1 == AddReasoningStep(st,
                   ReasoningStep("execution", "LLMAnalyst", llm_analysis,
                                 LLMStepConfidence(llm_analysis)))
        artifact == [k \in {"raw_data", "protocol_analysis", "llm_analysis"} |->
                        CASE k = "raw_data" -> raw
                          [] k = "protocol_analysis" -> protocol_analysis
                          [] k = "llm_analysis" -> llm_analysis]
    IN  [st1 EXCEPT !.processed_data = Put(st1.processed_data, "execution", artifact),
                    !.identified_issues = st1.identified_issues \o
                                              Get(llm_analysis, "identified_issues", <<>>)]

\* How a phase ends: the state it leaves, what its LLM call did and where
\* process_query goes on.
PhaseFailed(st, phase, exc, llm) ==
    [state |-> PhaseExcept(st, phase, exc), llm |-> llm, next |-> AfterPhaseError(phase)]

PhaseCompleted(st, phase, llm) ==
    [state |-> st, llm |-> llm, next |-> NextAfter(phase)]

\* _execution_phase from the LLM call to the end, the protocol step appended:
\* every way it can end.  The prompt is built with self._format_data_for_llm;
\* json.loads and the except clause's json.JSONDecodeError read the name json.
ExecutionInterpret(st, raw, protocol_analysis) ==
    IF "_format_data_for_llm" \notin OrchestratorAttrs
    THEN {PhaseFailed(st, "execution", NoFormatDataForLLM, "none")}
    ELSE {PhaseFailed(st, "execution", LLMUnavailable, "raises")}
         \cup
         UNION {IF NameDefined("json")
                THEN {PhaseCompleted(CommitExecution(st, raw, protocol_analysis, a),
                                     "execution", o) : a \in ExecutionAnalyses(o)}
                ELSE {PhaseFailed(st, "execution", JsonNameError, o)}
                    : o \in LLMOutcomes \ {"raises"}}

\* What a rule analysis returns, as far as the pipeline reads it: a value for
\* the output_data of a step, which ReasoningStep declares a dictionary.
ProtocolAnalysis == [analysis |-> <<"protocol analysis">>]

\* _execution_phase from the rule analysis to the end: every way it can end.
ExecutionRest(st, raw) ==
    IF "analyze_protocols" \notin ProtocolAgentAttrs
    THEN {PhaseFailed(st, "execution", NoAnalyzeProtocols, "none")}
    ELSE {PhaseFailed(st, "execution", AnalyzeProtocolsRaised, "none")}
         \cup
         ExecutionInterpret(
             AddReasoningStep(st, ReasoningStep("execution", "ProtocolAgent",
                                                ProtocolAnalysis, ProtocolConfidence)),
             raw, ProtocolAnalysis)

\* Rule analysis, LLM interpretation and commit of the execution artifact.
execution_analyze ==
    /\ pc = "analyze"
    /\ \E r \in ExecutionRest(state, raw_data) :
        /\ state' = r.state
        /\ llm_outcome' = [llm_outcome EXCEPT !.execution = r.llm]
        /\ pc' = r.next
    /\ UNCHANGED <<user_query, locals, caller>>
    /\ UNCHANGED <<rule_engine, server>>

-----------------------------------------------------------------------------
(* Feedback *)

\* The `async def` methods of ProtocolAgent: the ones a caller can await.
ProtocolAgentCoroutines == {}

\* Positional arguments _feedback_phase passes to generate_recommendations.
FeedbackCallArgs == 2

\* What the parse of the Feedback LLM's answer leaves in feedback_data, json
\* being bound.
FeedbackData(o) ==
    IF o = "not_json"
    THEN {LLMFeedbackFallback}
    ELSE {LLMFeedback(recs) : recs \in LLMRecommendationLists}

\* The feedback step and the final_feedback artifact.  The normalized
\* recommendations and action plan stay in locals of the phase.
CommitFeedback(st, feedback_data) ==
    LET st1 == AddReasoningStep(st,
                   ReasoningStep("feedback", "FeedbackAgent", feedback_data, FeedbackConfidence))
    IN  [st1 EXCEPT !.processed_data = Put(st1.processed_data, "final_feedback", feedback_data)]

\* _feedback_phase from the protocol step to the end: every way it can end.
\* The prompt is built with json.dumps.
FeedbackInterpret(st) ==
    IF ~NameDefined("json")
    THEN {PhaseFailed(st, "feedback", JsonNameError, "none")}
    ELSE {PhaseFailed(st, "feedback", LLMUnavailable, "raises")}
         \cup
         UNION {{PhaseCompleted(CommitFeedback(st, f), "feedback", o) : f \in FeedbackData(o)}
                    : o \in LLMOutcomes \ {"raises"}}

\* What generate_recommendations returns, as the output_data of a step.
ProtocolRecommendations == [recommendations |-> <<"Continue regular monitoring">>]

\* _feedback_phase: every way it can end.  It awaits
\* self.protocol_agent.generate_recommendations(raw_data, issues).
FeedbackRest(st) ==
    IF "generate_recommendations" \notin ProtocolAgentAttrs
    THEN {PhaseFailed(st, "feedback", NoGenerateRecommendations, "none")}
    ELSE IF GenerateRecommendationsArity # FeedbackCallArgs
    THEN {PhaseFailed(st, "feedback", GenerateRecommendationsArgs, "none")}
    ELSE IF "generate_recommendations" \notin ProtocolAgentCoroutines
    THEN {PhaseFailed(st, "feedback", AwaitOfList, "none")}
    ELSE FeedbackInterpret(
             AddReasoningStep(st, ReasoningStep("feedback", "ProtocolAgent",
                                                ProtocolRecommendations,
                                                FeedbackProtocolConfidence)))

feedback_phase ==
    /\ pc = "feedback"
    /\ \E r \in FeedbackRest(state) :
        /\ state' = r.state
        /\ llm_outcome' = [llm_outcome EXCEPT !.feedback = r.llm]
        /\ pc' = r.next
    /\ UNCHANGED <<user_query, locals, caller>>
    /\ UNCHANGED <<rule_engine, server>>

-----------------------------------------------------------------------------
(* Return and answer extraction *)

\* `return state` of process_query's try block.
process_query_return ==
    /\ pc = "return"
    /\ result' = "state"
    /\ pc' = "extract"
    /\ UNCHANGED <<user_query, state, llm_outcome, locals, http_status, answer>>
    /\ UNCHANGED <<rule_engine, server>>

\* Python truth of a str, list or dict.
Truthy(v) == v # <<>>

\* a or b
Or(a, b) == IF Truthy(a) THEN a ELSE b

\* str(d) of a dictionary
StrOfDict(d) == IF d = EmptyDict THEN <<"{}">> ELSE <<"text of the dictionary">>

\* d.get("main_response", "") or d.get("recommendations", "") or
\* d.get("analysis_results", "") or str(d)
AnswerFrom(d) ==
    Or(Get(d, "main_response", <<>>),
       Or(Get(d, "recommendations", <<>>),
          Or(Get(d, "analysis_results", <<>>), StrOfDict(d))))

\* The generic answer: it reports the number of reasoning steps.
StepsAnswer(n) == <<"ru:analiz zavershen. obrabotano shagov rassuzhdeniya:", ToString(n)>>

\* Mutant of ExtractAnswer: the final check for an empty answer is left out.
ExtractAnswerNoFinalCheck(st) ==
    LET final_feedback == Get(st.processed_data, "final_feedback", EmptyDict)
        a1 == AnswerFrom(final_feedback)
        steps == st.reasoning_steps
    IN  IF (~Truthy(a1) \/ a1 = <<"{}">>)
           /\ steps # <<>> /\ Truthy(steps[Len(steps)].output_data)
        THEN AnswerFrom(steps[Len(steps)].output_data)
        ELSE a1

\* The answer orchestrate extracts from the returned state.
ExtractAnswer(st) ==
    LET final_feedback == Get(st.processed_data, "final_feedback", EmptyDict)
        a1 == AnswerFrom(final_feedback)
        steps == st.reasoning_steps
        a2 == IF (~Truthy(a1) \/ a1 = <<"{}">>)
                 /\ steps # <<>> /\ Truthy(steps[Len(steps)].output_data)
              THEN AnswerFrom(steps[Len(steps)].output_data)
              ELSE a1
    IN  IF ~Truthy(a2) \/ a2 \in {<<"{}">>, <<"[]">>}
        THEN StepsAnswer(Len(steps))
        ELSE a2

\* What saving the answer to the chat backend can do.
SaveOutcomes == {"saved", "backend_error", "unauthorized"}

\* orchestrate from the extraction of the answer to its response.  A backend
\* error on saving is logged and ignored unless it is an authentication error.
orchestrate_extract ==
    /\ pc = "extract"
    /\ answer' = ExtractAnswer(state)
    /\ \E saved \in SaveOutcomes :
        http_status' = IF saved = "unauthorized" THEN "401" ELSE "200"
    /\ pc' = "done"
    /\ UNCHANGED <<user_query, state, llm_outcome, locals, result>>
    /\ UNCHANGED <<rule_engine, server>>

-----------------------------------------------------------------------------
(* Specifications *)

NoLocals ==
    /\ data_requirements = <<>>
    /\ idx = 0
    /\ raw_data = EmptyDict
    /\ successful_types = <<>>
    /\ failed_types = <<>>

\* No rule engine is in use and no concurrent request is in flight.
Elsewhere ==
    /\ rules = EmptyDict
    /\ metrics = EmptyDict
    /\ analysis = EmptyDict
    /\ previous_analysis = EmptyDict
    /\ error_log = EmptyDict
    /\ log_analysis = EmptyDict
    /\ orchestrator = 0
    /\ orchestrators = <<>>
    /\ objects = <<>>
    /\ requests = <<>>

\* A request arrives at orchestrate.
Init ==
    /\ pc = "orchestrate"
    /\ user_query \in Queries
    /\ result = "none"
    /\ http_status = "none"
    /\ answer = <<>>
    /\ state = NoState
    /\ llm_outcome = NoLLMCall
    /\ NoLocals
    /\ Elsewhere

Next ==
    \/ orchestrate_call
    \/ process_query_construct
    \/ orchestrate_except

Spec == Init /\ [][Next]_vars

\* process_query's try block begins on a ReasoningState built from session_id
\* and user_query.
PipelineInit ==
    /\ pc = "planning"
    /\ user_query \in Queries
    /\ result = "none"
    /\ http_status = "none"
    /\ answer = <<>>
    /\ state = NewReasoningState
    /\ llm_outcome = NoLLMCall
    /\ NoLocals
    /\ Elsewhere

PipelineNext ==
    \/ planning_invoke
    \/ planning_parse
    \/ execution_begin
    \/ collect
    \/ execution_data_step
    \/ execution_analyze
    \/ feedback_phase
    \/ process_query_return
    \/ orchestrate_extract

PipelineSpec == PipelineInit /\ [][PipelineNext]_vars

-----------------------------------------------------------------------------
(* _execution_phase called on the states a Planning phase may hand it *)

\* planning_results as Execution may find it: the dataclass default, the
\* object of a Planning LLM, or no dictionary at all.
PlanningResults ==
    {EmptyDict, NotADict} \cup {LLMPlanningData(reqs) : reqs \in LLMRequirementLists}

ExecutionInit ==
    /\ pc = "execution"
    /\ user_query \in Queries
    /\ result = "none"
    /\ http_status = "none"
    /\ answer = <<>>
    /\ state \in {[NewReasoningState EXCEPT !.planning_results = p] : p \in PlanningResults}
    /\ llm_outcome = NoLLMCall
    /\ NoLocals
    /\ Elsewhere

ExecutionNext ==
    \/ execution_begin
    \/ collect
    \/ execution_data_step
    \/ execution_analyze

ExecutionSpec == ExecutionInit /\ [][ExecutionNext]_vars

-----------------------------------------------------------------------------
(* The rule engine: ProtocolAgent.analyze_metrics *)

\* self.default_rules
DefaultRules ==
    [error_thresholds |->
         [critical_error_count |-> 10, error_rate_per_minute |-> 5, response_time_ms |-> 5000],
     performance_thresholds |->
         [cpu_usage_percent |-> 80, memory_usage_percent |-> 85,
          disk_usage_percent |-> 90, network_latency_ms |-> 1000],
     alert_rules |->
         [consecutive_errors |-> 3, service_downtime_minutes |-> 5, anomaly_detection |-> TRUE],
     escalation_protocols |-> [level_1 |-> 3, level_2 |-> 5, level_3 |-> 10]]

\* The content of a rules file: thresholds for three metrics (one without a
\* critical entry, one without a warning entry) and limits for one service.
CustomRules ==
    [protocol_rules |->
         [metric_thresholds |->
              [cpu_usage |-> [warning |-> 80, critical |-> 90,
                              recommendations |-> <<"scale the cpu">>],
               memory_usage |-> [warning |-> 85,
                                 recommendations |-> <<"look for memory leaks">>],
               disk_usage |-> [critical |-> 95]],
          service_specific_rules |->
              [api |-> [max_requests_per_second |-> 100, max_response_time |-> 500]]]]

\* {**a, **b}
Merge(a, b) ==
    [k \in DOMAIN a \cup DOMAIN b |-> IF k \in DOMAIN b THEN b[k] ELSE a[k]]

\* What ProtocolAgent(rules_path) finds at rules_path.
RulesFiles == {"no_path", "valid_file", "unreadable_file"}

\* ProtocolAgent.__init__: the rule table the agent starts with.
LoadRules(file) ==
    IF file = "valid_file" THEN Merge(DefaultRules, CustomRules) ELSE DefaultRules

\* float('inf'): above every metric value and every threshold.
Infinity == 1000000

\* The metrics a metric set may hold, in the order of the dictionary, and the
\* values each may take.
MetricNames ==
    <<"cpu_usage", "memory_usage", "disk_usage", "requests_per_second",
      "response_time_avg", "queue_depth">>

MetricValuesOf(name) ==
    CASE name = "cpu_usage" -> {50, 85, 90, 95}
      [] name = "memory_usage" -> {84, 85}
      [] name = "disk_usage" -> {95}
      [] name = "requests_per_second" -> {100, 150}
      [] name = "response_time_avg" -> {600}
      [] name = "queue_depth" -> {99}

\* The dictionaries over MetricNames[i..], as lists of items in key order.
RECURSIVE MetricDicts(_)
MetricDicts(i) ==
    IF i > Len(MetricNames)
    THEN {<<>>}
    ELSE LET rest == MetricDicts(i + 1)
         IN  rest \cup {<<[name |-> MetricNames[i], value |-> v]>> \o r :
                            v \in MetricValuesOf(MetricNames[i]), r \in rest}

\* The arguments of analyze_metrics: with and without "service", with a
\* dictionary under "metrics", with something else there, and without the key.
MetricSets ==
    {[service |-> sv, metrics |-> [type |-> "dict", items |-> d]] :
         sv \in {"api", "db"}, d \in MetricDicts(1)}
    \cup {[metrics |-> [type |-> "dict", items |-> d]] : d \in MetricDicts(1)}
    \cup {[service |-> "api", metrics |-> [type |-> "list", items |-> <<>>]],
          [service |-> "api"]}

\* metric_values.get(name, default)
MetricValue(metric_values, name, default) ==
    LET at == {i \in 1..Len(metric_values) : metric_values[i].name = name}
    IN  IF at = {} THEN default ELSE metric_values[CHOOSE i \in at : TRUE].value

Issue(metric, value, threshold, severity) ==
    [metric |-> metric, value |-> value, threshold |-> threshold, severity |-> severity]

\* Mutant of ThresholdIssue: the critical boundary is exclusive.
ThresholdIssueStrict(thresholds, item) ==
    IF item.name \in DOMAIN thresholds
    THEN LET threshold_rule == thresholds[item.name]
             warning_threshold == Get(threshold_rule, "warning", Infinity)
             critical_threshold == Get(threshold_rule, "critical", Infinity)
         IN  IF item.value > critical_threshold
             THEN <<Issue(item.name, item.value, critical_threshold, "critical")>>
             ELSE IF item.value >= warning_threshold
             THEN <<Issue(item.name, item.value, warning_threshold, "warning")>>
             ELSE <<>>
    ELSE <<>>

\* One pass of the loop over metric_values: the issue of one metric, if any.
ThresholdIssue(thresholds, item) ==
    IF item.name \in DOMAIN thresholds
    THEN LET threshold_rule == thresholds[item.name]
             warning_threshold == Get(threshold_rule, "warning", Infinity)
             critical_threshold == Get(threshold_rule, "critical", Infinity)
         IN  IF item.value >= critical_threshold
             THEN <<Issue(item.name, item.value, critical_threshold, "critical")>>
             ELSE IF item.value >= warning_threshold
             THEN <<Issue(item.name, item.value, warning_threshold, "warning")>>
             ELSE <<>>
    ELSE <<>>

\* The loop over metric_values.
RECURSIVE ThresholdIssues(_, _)
ThresholdIssues(thresholds, metric_values) ==
    IF metric_values = <<>>
    THEN <<>>
    ELSE ThresholdIssue(thresholds, Head(metric_values))
             \o ThresholdIssues(thresholds, Tail(metric_values))

\* The recommendations the loop collects, as list(set(...)) returns them.
ThresholdRecommendations(thresholds, metric_values) ==
    LET flagged == {i \in 1..Len(metric_values) :
                        ThresholdIssue(thresholds, metric_values[i]) # <<>>}
    IN  UNION {LET r == Get(thresholds[metric_values[i].name], "recommendations", <<>>)
               IN  {r[j] : j \in DOMAIN r}
                   : i \in flagged}

\* The service-specific limits.
ServiceIssues(service_rules, metric_values) ==
    IF DOMAIN service_rules = {}
    THEN <<>>
    ELSE LET rps == MetricValue(metric_values, "requests_per_second", 0)
             response_time == MetricValue(metric_values, "response_time_avg", 0)
             max_rps == Get(service_rules, "max_requests_per_second", Infinity)
             max_response_time == Get(service_rules, "max_response_time", Infinity)
         IN  (IF rps > max_rps
              THEN <<Issue("requests_per_second", rps, max_rps, "warning")>> ELSE <<>>)
             \o
             (IF response_time > max_response_time
              THEN <<Issue("response_time_avg", response_time, max_response_time, "warning")>>
              ELSE <<>>)

\* Mutant of AnalysisStatus: the status is taken from the threshold issues
\* alone.
AnalysisStatusOfThresholdsOnly(issues) ==
    LET counted == {i \in 1..Len(issues) :
                        issues[i].metric \notin {"requests_per_second", "response_time_avg"}}
    IN  IF \E i \in counted : issues[i].severity = "critical" THEN "critical"
        ELSE IF counted # {} THEN "warning"
        ELSE "healthy"

\* "status" of the returned dictionary.
AnalysisStatus(issues) ==
    IF \E i \in 1..Len(issues) : issues[i].severity = "critical" THEN "critical"
    ELSE IF issues # <<>> THEN "warning"
    ELSE "healthy"

\* What analyze_metrics returns at time now.
AnalyzeMetrics(rls, m, now) ==
    LET service == Get(m, "service", "unknown")
        given == Get(m, "metrics", [type |-> "dict", items |-> <<>>])
        metric_values == IF given.type = "dict" THEN given.items ELSE <<>>
        protocol_rules == Get(rls, "protocol_rules", EmptyDict)
        thresholds == Get(protocol_rules, "metric_thresholds", EmptyDict)
        service_rules == Get(Get(protocol_rules, "service_specific_rules", EmptyDict),
                             service, EmptyDict)
        issues == ThresholdIssues(thresholds, metric_values)
                      \o ServiceIssues(service_rules, metric_values)
    IN  [service |-> service,
         total_issues |-> Len(issues),
         issues |-> issues,
         recommendations |-> ThresholdRecommendations(thresholds, metric_values),
         status |-> AnalysisStatus(issues),
         analysis_timestamp |-> now]

\* Mutant of RulesAfterAnalysis: the recommendations are collected in the
\* list of the first threshold rule itself, which grows with every call.
RulesAfterAnalysisAliased(rls, m) ==
    IF "protocol_rules" \in DOMAIN rls
    THEN [rls EXCEPT !.protocol_rules.metric_thresholds.cpu_usage.recommendations =
                         @ \o <<"scale the cpu">>]
    ELSE rls

\* self.rules after a call of analyze_metrics: the method assigns to locals
\* only.
RulesAfterAnalysis(rls, m) == rls

\* The number of calls made so far, which stands for datetime.now().
Now == Get(analysis, "analysis_timestamp", 0)

\* ProtocolAgent(rules_path)
protocol_agent_init ==
    /\ pc = "rule_engine_new"
    /\ \E file \in RulesFiles : rules' = LoadRules(file)
    /\ pc' = "rule_engine"
    /\ UNCHANGED <<user_query, state, llm_outcome, locals, caller,
                   metrics, analysis, previous_analysis, error_log, log_analysis, server>>

\* protocol_agent.analyze_metrics(metrics)
analyze_metrics ==
    /\ pc = "rule_engine"
    /\ Now < MaxCalls
    /\ analysis' = AnalyzeMetrics(rules, metrics, Now + 1)
    /\ previous_analysis' = analysis
    /\ rules' = RulesAfterAnalysis(rules, metrics)
    /\ UNCHANGED <<pc, user_query, state, llm_outcome, locals, caller, metrics,
                   error_log, log_analysis, server>>

\* A metric set arrives for a rule engine about to be built.
RuleInit ==
    /\ pc = "rule_engine_new"
    /\ user_query = {}
    /\ result = "none"
    /\ http_status = "none"
    /\ answer = <<>>
    /\ state = NoState
    /\ llm_outcome = NoLLMCall
    /\ NoLocals
    /\ rules = EmptyDict
    /\ metrics \in MetricSets
    /\ analysis = EmptyDict
    /\ previous_analysis = EmptyDict
    /\ error_log = EmptyDict
    /\ log_analysis = EmptyDict
    /\ orchestrator = 0
    /\ orchestrators = <<>>
    /\ objects = <<>>
    /\ requests = <<>>

RuleNext ==
    \/ protocol_agent_init
    \/ analyze_metrics

RuleSpec == RuleInit /\ [][RuleNext]_vars

-----------------------------------------------------------------------------
(* A ReasoningState driven through its methods *)

\* Confidences a step may carry: 0 and three of those the phases give.
StepConfidences ==
    {0, LLMFallbackConfidence, PlanningConfidence, DataConfidenceComplete}

\* state.add_reasoning_step(step)
add_reasoning_step ==
    /\ pc = "session"
    /\ Len(state.reasoning_steps) < MaxSteps
    /\ \E phase \in Phases, confidence \in StepConfidences :
        state' = AddReasoningStep(state, ReasoningStep(phase, "agent", EmptyDict, confidence))
    /\ UNCHANGED <<pc, user_query, llm_outcome, locals, caller, rule_engine, server>>

\* state.add_error(error_message)
add_error ==
    /\ pc = "session"
    /\ Len(state.error_messages) < MaxErrors
    /\ \E phase \in Phases :
        state' = AddError(state, ErrorMessage(phase, LLMUnavailable))
    /\ UNCHANGED <<pc, user_query, llm_outcome, locals, caller, rule_engine, server>>

\* state.set_phase(phase)
set_phase ==
    /\ pc = "session"
    /\ \E phase \in Phases :
        state' = [state EXCEPT !.current_phase = phase]
    /\ UNCHANGED <<pc, user_query, llm_outcome, locals, caller, rule_engine, server>>

\* A ReasoningState just built, with its methods called in any order.
StateInit ==
    /\ pc = "session"
    /\ user_query = {}
    /\ result = "none"
    /\ http_status = "none"
    /\ answer = <<>>
    /\ state = NewReasoningState
    /\ llm_outcome = NoLLMCall
    /\ NoLocals
    /\ Elsewhere

StateNext ==
    \/ add_reasoning_step
    \/ add_error
    \/ set_phase

StateSpec == StateInit /\ [][StateNext]_vars

-----------------------------------------------------------------------------
(* The log analysis: ProtocolAgent.analyze_error_log *)

\* The level strings of the log records, in the spellings loggers write.
Levels ==
    {"CRITICAL", "critical", "FATAL", "Fatal", "ERROR", "error", "Error",
     "WARNING", "warning", "WARN", "warn", "INFO", "info", "DEBUG"}

ErrorCodes ==
    {"AUTH_FAILED", "auth_failed", "CONN_TIMEOUT", "NETWORK_DOWN", "DB_ERROR",
     "DATABASE_DOWN", "API_AUTH", "API_LIMIT", "E500"}

\* str.upper() on the strings of the model.
Upper(s) ==
    CASE s = "critical" -> "CRITICAL"
      [] s \in {"Fatal"} -> "FATAL"
      [] s \in {"error", "Error"} -> "ERROR"
      [] s = "warning" -> "WARNING"
      [] s = "warn" -> "WARN"
      [] s = "info" -> "INFO"
      [] s = "auth_failed" -> "AUTH_FAILED"
      [] OTHER -> s

\* The fragments _categorize_error looks for that occur in an upper-case code
\* (`fragment in code` is a substring test).
Fragments(code) ==
    CASE code = "AUTH_FAILED" -> {"AUTH"}
      [] code = "CONN_TIMEOUT" -> {"CONN"}
      [] code = "NETWORK_DOWN" -> {"NETWORK"}
      [] code = "DB_ERROR" -> {"DB"}
      [] code = "DATABASE_DOWN" -> {"DATABASE"}
      [] code = "API_AUTH" -> {"API", "AUTH"}
      [] code = "API_LIMIT" -> {"API"}
      [] OTHER -> {}

\* The log records: each of level, error_code and service present or missing.
ErrorLogs ==
    LET WithLevel == {EmptyDict} \cup {Put(EmptyDict, "level", <<l>>) : l \in Levels}
        WithCode == UNION {{d} \cup {Put(d, "error_code", <<c>>) : c \in ErrorCodes} :
                               d \in WithLevel}
    IN  UNION {{d, Put(d, "service", <<"api">>)} : d \in WithCode}

\* Mutant of DetermineSeverity: the level is compared as it was written.
DetermineSeverityCaseSensitive(level, error_code) ==
    IF level \in {"CRITICAL", "FATAL", "ERROR"} THEN "high"
    ELSE IF level \in {"WARNING", "WARN"} THEN "medium"
    ELSE "low"

\* ProtocolAgent._determine_severity
DetermineSeverity(level, error_code) ==
    IF Upper(level) \in {"CRITICAL", "FATAL", "ERROR"} THEN "high"
    ELSE IF Upper(level) \in {"WARNING", "WARN"} THEN "medium"
    ELSE "low"

\* ProtocolAgent._categorize_error
CategorizeError(error_code) ==
    LET found == Fragments(Upper(error_code))
    IN  IF "AUTH" \in found THEN "authentication"
        ELSE IF "CONN" \in found \/ "NETWORK" \in found THEN "connectivity"
        ELSE IF "DB" \in found \/ "DATABASE" \in found THEN "database"
        ELSE IF "API" \in found THEN "api"
        ELSE "general"

\* ProtocolAgent._generate_generic_recommendations: the level is compared as
\* it was written.
GenerateGenericRecommendations(log) ==
    LET level == Get(log, "level", <<"INFO">>)[1]
        service == Get(log, "service", <<"unknown">>)[1]
        recommendations == <<IF service = "api"
                             THEN "Review api service logs for additional context"
                             ELSE "Review unknown service logs for additional context",
                             "Check service health and resource utilization",
                             "Verify service configuration and dependencies">>
    IN  IF level \in {"CRITICAL", "ERROR"}
        THEN recommendations \o <<"Consider implementing retry mechanisms",
                                  "Set up monitoring and alerting for this error type",
                                  "Review error handling in the application code">>
        ELSE recommendations

\* ProtocolAgent._get_immediate_actions
GetImmediateActions(level) ==
    IF Upper(level) \in {"CRITICAL", "FATAL"}
    THEN <<"ru:nemedlenno uvedomit komandu", "ru:proverit sostoyanie servisa",
           "ru:podgotovit plan vosstanovleniya">>
    ELSE IF Upper(level) = "ERROR"
    THEN <<"ru:proanalizirovat detali oshibki", "ru:proverit logi servisa",
           "ru:monitorit povtoreniya">>
    ELSE <<"ru:zafiksirovat v sisteme monitoringa", "ru:proverit trendy">>

\* The dictionary analyze_error_log returns; None is the empty tuple.
AnalyzeErrorLog(log) ==
    LET error_code == Get(log, "error_code", <<"UNKNOWN">>)[1]
        service == Get(log, "service", <<"unknown">>)[1]
        level == Get(log, "level", <<"INFO">>)[1]
    IN  [k \in {"error_code", "service", "level", "timestamp", "message", "severity",
                "category", "recommendations", "immediate_actions", "analysis_timestamp"} |->
            CASE k = "error_code" -> <<error_code>>
              [] k = "service" -> <<service>>
              [] k = "level" -> <<level>>
              [] k = "timestamp" -> Get(log, "timestamp", <<>>)
              [] k = "message" -> Get(log, "message", <<>>)
              [] k = "severity" -> <<DetermineSeverity(level, error_code)>>
              [] k = "category" -> <<CategorizeError(error_code)>>
              [] k = "recommendations" -> GenerateGenericRecommendations(log)
              [] k = "immediate_actions" -> GetImmediateActions(level)
              [] k = "analysis_timestamp" -> <<"now">>]

\* ProtocolAgent.analyze_error_log
analyze_error_log ==
    /\ pc = "log_engine"
    /\ log_analysis = EmptyDict
    /\ log_analysis' = AnalyzeErrorLog(error_log)
    /\ UNCHANGED <<pc, user_query, state, llm_outcome, locals, caller,
                   rules, metrics, analysis, previous_analysis, error_log, server>>

LogInit ==
    /\ pc = "log_engine"
    /\ user_query = {}
    /\ result = "none"
    /\ http_status = "none"
    /\ answer = <<>>
    /\ state = NoState
    /\ llm_outcome = NoLLMCall
    /\ NoLocals
    /\ rules \in {LoadRules(file) : file \in RulesFiles}
    /\ metrics = EmptyDict
    /\ analysis = EmptyDict
    /\ previous_analysis = EmptyDict
    /\ error_log \in ErrorLogs
    /\ log_analysis = EmptyDict
    /\ orchestrator = 0
    /\ orchestrators = <<>>
    /\ objects = <<>>
    /\ requests = <<>>

LogNext == analyze_error_log

LogSpec == LogInit /\ [][LogNext]_vars

-----------------------------------------------------------------------------
(* Concurrent requests *)

\* The requests in flight at once, and the queries they carry.
Requests == {1, 2}
ConcurrentQueries == {ServerSlowQuery, {"cpu"}}

\* The frame of an orchestrate call that has read the service and the chat
\* history and is about to build its AIOrchestrator.
ArrivedFrame(query) ==
    [pc |-> "arrived", user_query |-> query, self |-> 0, state |-> 0,
     llm_outcome |-> NoLLMCall, data_requirements |-> <<>>, idx |-> 0,
     raw_data |-> EmptyDict, successful_types |-> <<>>, failed_types |-> <<>>,
     result |-> "none", answer |-> <<>>, http_status |-> "none"]

\* AIOrchestrator.__init__: the n-th orchestrator has an LLM client, a
\* DataAgent and a ProtocolAgent of its own.
NewOrchestrator(n) == [llm |-> n, data_agent |-> n, protocol_agent |-> n]

\* Mutant of NewObjectRef: process_query works on one module-level state.
NewObjectRefShared(objs) == 1

\* ReasoningState(...) in process_query: each call builds a new object.
NewObjectRef(objs) == Len(objs) + 1

\* orchestrate builds the AIOrchestrator of the request, assigns it to the
\* module global and calls process_query on the global, with no await in
\* between; process_query enters its try block on a ReasoningState built with
\* the dataclass's own fields.
request_begin(r) ==
    /\ pc = "server"
    /\ requests[r].pc = "arrived"
    /\ LET ref == NewObjectRef(objects)
       IN  /\ orchestrators' = Append(orchestrators, NewOrchestrator(Len(orchestrators) + 1))
           /\ orchestrator' = Len(orchestrators')
           /\ objects' = IF ref > Len(objects)
                         THEN Append(objects, NewReasoningState)
                         ELSE [objects EXCEPT ![ref] = NewReasoningState]
           /\ requests' = [requests EXCEPT ![r] =
                              [@ EXCEPT !.pc = "planning", !.self = orchestrator', !.state = ref]]
    /\ UNCHANGED <<request, rule_engine>>

\* One iteration of the collection loop, or the data step after it, in frame f.
FrameCollect(f, st) ==
    IF f.idx <= Len(f.data_requirements)
    THEN LET tag == f.data_requirements[f.idx]
         IN  IF IsCollected(tag)
             THEN {[frame |-> IF out = "ok"
                              THEN [f EXCEPT !.raw_data = Put(f.raw_data, tag, <<"records">>),
                                             !.successful_types = Append(@, tag),
                                             !.idx = f.idx + 1]
                              ELSE [f EXCEPT !.failed_types = CollectFailed(@, tag),
                                             !.idx = f.idx + 1],
                    state |-> st] : out \in CollectorOutcomes(CollectorMethod(tag))}
             ELSE {[frame |-> [f EXCEPT !.idx = f.idx + 1], state |-> st]}
    ELSE {[frame |-> [f EXCEPT !.pc = "analyze"],
           state |-> AddReasoningStep(st, ReasoningStep("execution", "DataAgent", f.raw_data,
                                                        DataConfidence(f.failed_types)))]}

\* The next step of process_query and of the extraction in frame f, whose
\* ReasoningState is st: the steps of PipelineSpec, taken on the frame.
FrameStep(f, st) ==
    CASE f.pc = "planning" ->
            {[frame |-> [f EXCEPT !.llm_outcome.planning = o,
                                  !.pc = IF o = "raises" THEN AfterPhaseError("planning")
                                         ELSE "planning_parse"],
              state |-> IF o = "raises" THEN PhaseExcept(st, "planning", LLMUnavailable) ELSE st]
                 : o \in LLMOutcomes}
      [] f.pc = "planning_parse" ->
            IF NameDefined("json")
            THEN {[frame |-> [f EXCEPT !.pc = NextAfter("planning")],
                   state |-> CommitPlanning(st, planning_data)]
                      : planning_data \in PlanningData(f.llm_outcome.planning, f.user_query)}
            ELSE {[frame |-> [f EXCEPT !.pc = AfterPhaseError("planning")],
                   state |-> PhaseExcept(st, "planning", JsonNameError)]}
      [] f.pc = "execution" ->
            {[frame |-> [f EXCEPT !.data_requirements = ExecutionRequirements(st, f.user_query),
                                  !.idx = 1, !.raw_data = EmptyDict,
                                  !.successful_types = <<>>, !.failed_types = <<>>,
                                  !.pc = "collect"],
              state |-> st]}
      [] f.pc = "collect" -> FrameCollect(f, st)
      [] f.pc = "analyze" ->
            {[frame |-> [f EXCEPT !.llm_outcome.execution = e.llm, !.pc = e.next],
              state |-> e.state] : e \in ExecutionRest(st, f.raw_data)}
      [] f.pc = "feedback" ->
            {[frame |-> [f EXCEPT !.llm_outcome.feedback = e.llm, !.pc = e.next],
              state |-> e.state] : e \in FeedbackRest(st)}
      [] f.pc = "return" ->
            {[frame |-> [f EXCEPT !.result = "state", !.pc = "extract"], state |-> st]}
      [] f.pc = "extract" ->
            {[frame |-> [f EXCEPT !.answer = ExtractAnswer(st),
                                  !.http_status = IF saved = "unauthorized" THEN "401" ELSE "200",
                                  !.pc = "done"],
              state |-> st] : saved \in SaveOutcomes}
      [] OTHER -> {}

\* Request r runs up to its next await; the ReasoningState it works on is the
\* one its frame refers to.
request_step(r) ==
    /\ pc = "server"
    /\ requests[r].state \in DOMAIN objects
    /\ \E n \in FrameStep(requests[r], objects[requests[r].state]) :
        /\ requests' = [requests EXCEPT ![r] = n.frame]
        /\ objects' = [objects EXCEPT ![requests[r].state] = n.state]
    /\ UNCHANGED <<request, rule_engine, orchestrator, orchestrators>>

\* Two requests have arrived at the server.
ConcurrentInit ==
    /\ pc = "server"
    /\ user_query = {}
    /\ result = "none"
    /\ http_status = "none"
    /\ answer = <<>>
    /\ state = NoState
    /\ llm_outcome = NoLLMCall
    /\ NoLocals
    /\ rules = EmptyDict
    /\ metrics = EmptyDict
    /\ analysis = EmptyDict
    /\ previous_analysis = EmptyDict
    /\ error_log = EmptyDict
    /\ log_analysis = EmptyDict
    /\ orchestrator = 0
    /\ orchestrators = <<>>
    /\ objects = <<>>
    /\ requests \in [Requests -> {ArrivedFrame(q) : q \in ConcurrentQueries}]

ConcurrentNext ==
    \E r \in Requests :
        \/ request_begin(r)
        \/ request_step(r)

ConcurrentSpec == ConcurrentInit /\ [][ConcurrentNext]_vars

-----------------------------------------------------------------------------
(* What a session shows of its phases *)

PhaseRank(phase) ==
    CASE phase = "planning" -> 1
      [] phase = "execution" -> 2
      [] phase = "feedback" -> 3

\* Positions of a phase's steps and of its error messages in the state.
PhaseSteps(phase) ==
    {i \in 1..Len(state.reasoning_steps) : state.reasoning_steps[i].phase = phase}

PhaseErrors(phase) ==
    {i \in 1..Len(state.error_messages) : state.error_messages[i].phase = phase}

\* A phase ran: it left a step or an error message.
PhaseRan(phase) == PhaseSteps(phase) # {} \/ PhaseErrors(phase) # {}

\* Positions of process_query at which a phase is over.
AfterPlanning == {"execution", "collect", "analyze", "feedback", "return", "extract", "done"}
AfterCollection == {"analyze", "feedback", "return", "extract", "done"}
AfterExecution == {"feedback", "return", "extract", "done"}
AfterFeedback == {"return", "extract", "done"}

RecognizedTags == MetricTags \cup LogTags

-----------------------------------------------------------------------------
(* Claims *)

\* C1: process_query hands its caller a ReasoningState for every query and
\* never an exception.  (Stated as the claim; the code violates it.)
C1_ProcessQueryNeverRaises == result \in {"none", "state"}

\* C2: a phase whose body raises records the error (has_errors true, one
\* message appended for that phase) and the pipeline still advances: once a
\* failed Planning is over Execution runs, and once a failed Execution is over
\* Feedback runs.
C2_FailedPhaseRecordedAndPipelineAdvances ==
    /\ state.has_errors <=> (state.error_messages # <<>>)
    /\ \A p \in Phases : Cardinality(PhaseErrors(p)) <= 1
    /\ (PhaseErrors("planning") # {} /\ pc \in AfterExecution) => PhaseRan("execution")
    /\ (PhaseErrors("execution") # {} /\ pc \in AfterFeedback) => PhaseRan("feedback")

\* C2 witness: Planning and Execution both failed, and Execution and Feedback
\* both ran after them.
C2_Witness ==
    /\ pc = "return"
    /\ PhaseErrors("planning") # {}
    /\ PhaseSteps("execution") # {}
    /\ PhaseErrors("execution") # {}
    /\ PhaseErrors("feedback") # {}
    /\ state.has_errors

\* C3: the phases run one after the other in the order Planning, Execution,
\* Feedback, each at most once and none skipped: in reasoning_steps and in
\* error_messages no entry of a later phase precedes one of an earlier phase,
\* nothing of a phase appears before process_query has reached it, and at the
\* return every phase has run.
C3_PhasesSequentialInOrder ==
    /\ \A i, j \in 1..Len(state.reasoning_steps) :
           i < j => PhaseRank(state.reasoning_steps[i].phase)
                        <= PhaseRank(state.reasoning_steps[j].phase)
    /\ \A i, j \in 1..Len(state.error_messages) :
           i < j => PhaseRank(state.error_messages[i].phase)
                        < PhaseRank(state.error_messages[j].phase)
    /\ pc \notin AfterPlanning => ~PhaseRan("execution")
    /\ pc \notin AfterExecution => ~PhaseRan("feedback")
    /\ pc \in AfterFeedback => \A p \in Phases : PhaseRan(p)

\* C3 witness: at the return all three phases have left their entries, in order.
C3_Witness ==
    /\ pc = "return"
    /\ Len(state.error_messages) = 3
    /\ state.error_messages[1].phase = "planning"
    /\ state.error_messages[2].phase = "execution"
    /\ state.error_messages[3].phase = "feedback"
    /\ PhaseSteps("execution") # {}

\* C4: when all three phases fail, process_query still returns a
\* ReasoningState with has_errors true and exactly three error messages, and
\* the answer taken from it is not empty.  (Stated as the claim for the request
\* path as written, where every phase would fail; the code violates it.)
C4_TotalFailureStillReturnsState ==
    (pc = "done" /\ result # "none") =>
        /\ result = "state"
        /\ state.has_errors
        /\ Len(state.error_messages) = 3
        /\ answer # <<>>

\* C5: when the Planning LLM call throws or its answer is no valid planning
\* object, the data_requirements the Execution phase iterates over is not
\* empty; for "why is the server slow?" it holds cpu_metrics and memory_metrics.
C5_RequirementsNonEmptyAfterPlanningFailure ==
    (pc \in {"collect"} \cup AfterCollection
        /\ llm_outcome.planning \in {"raises", "not_json", "json_missing_key"}) =>
        /\ data_requirements # <<>>
        /\ user_query = ServerSlowQuery =>
               InSeq("cpu_metrics", data_requirements)
                   /\ InSeq("memory_metrics", data_requirements)

\* C5 witness: the Planning LLM call failed for "why is the server slow?" and
\* Execution iterates over its requirements.
C5_Witness ==
    /\ pc = "collect"
    /\ idx = 1
    /\ llm_outcome.planning = "raises"
    /\ user_query = ServerSlowQuery
    /\ Len(data_requirements) >= 2

\* C6: when the Planning LLM call raises, Planning degrades to the keyword
\* fallback: it appends a Planning step and commits a planning artifact with
\* the five keys, and records no error.  (Stated as the claim; the code
\* violates it.)
C6_PlanningDegradesWhenLLMRaises ==
    (pc \in AfterPlanning /\ llm_outcome.planning = "raises") =>
        /\ PhaseSteps("planning") # {}
        /\ HasKey(state.processed_data, "planning")
        /\ DOMAIN state.processed_data["planning"] =
               {"user_intent", "analysis_plan", "data_requirements", "target_services", "priority"}
        /\ PhaseErrors("planning") = {}

\* C7: an LLM answer that is no JSON or lacks a required key is recovered by
\* the fallback and adds nothing to has_errors and error_messages.  (Stated as
\* the claim for the Planning answer; the code violates it.)
C7_ParseFailureIsNoSessionError ==
    (pc = "execution" /\ llm_outcome.planning \in {"not_json", "json_missing_key"}) =>
        /\ ~state.has_errors
        /\ state.error_messages = <<>>

\* The tags among the first n requirements that the loop recognizes.
RecognizedIn(n) ==
    {i \in 1..n : data_requirements[i] \in RecognizedTags}

\* C8: each collector call is isolated: every recognized tag of
\* data_requirements is attempted whatever earlier calls did, a failing call is
\* caught and its tag recorded as failed (no error reaches the session from the
\* loop), and the phase goes on to the data step and the rule analysis.
C8_CollectorCallsIsolated ==
    /\ pc = "collect" =>
           /\ idx <= Len(data_requirements) + 1
           /\ Len(successful_types) + Len(failed_types) = Cardinality(RecognizedIn(idx - 1))
           /\ PhaseErrors("execution") = {}
    /\ pc \in AfterCollection =>
           /\ \A i \in RecognizedIn(Len(data_requirements)) :
                  InSeq(data_requirements[i], successful_types)
                      \/ InSeq(data_requirements[i], failed_types)
           /\ Len(successful_types) + Len(failed_types)
                  = Cardinality(RecognizedIn(Len(data_requirements)))
           /\ \E i \in PhaseSteps("execution") :
                  state.reasoning_steps[i].agent_name = "DataAgent"
    /\ pc \in AfterExecution =>
           \/ \E i \in PhaseSteps("execution") :
                  state.reasoning_steps[i].agent_name = "ProtocolAgent"
           \/ \E i \in PhaseErrors("execution") :
                  state.error_messages[i].error \in {NoAnalyzeProtocols, AnalyzeProtocolsRaised}

\* C8 witness: the first collector call failed, the second was attempted and
\* failed too, and the phase is at the rule analysis.
C8_Witness ==
    /\ pc = "analyze"
    /\ Len(data_requirements) = 2
    /\ failed_types = data_requirements
    /\ PhaseErrors("execution") = {}

\* C9: failing collector calls set no session error: after an Execution phase
\* whose collector calls failed, Execution has added nothing to error_messages.
\* (Stated as the claim; the code violates it.)
C9_CollectorFailureIsNoSessionError ==
    (pc \in AfterExecution /\ failed_types # <<>>) => PhaseErrors("execution") = {}

\* C10: the Execution result stored in the state holds the data of the tags
\* whose collector call succeeded and a failure entry naming each tag whose
\* call failed.  (Stated as the claim for whichever calls failed; the code
\* violates it.)
C10_ExecutionResultNamesFailedTags ==
    pc \in AfterExecution =>
        /\ HasKey(state.processed_data, "execution")
        /\ \A i \in 1..Len(successful_types) :
               HasKey(state.processed_data["execution"]["raw_data"], successful_types[i])
        /\ \A i \in 1..Len(failed_types) :
               /\ HasKey(state.processed_data["execution"], "failed_types")
               /\ InSeq(failed_types[i], state.processed_data["execution"]["failed_types"])

IsPrefix(s, t) == Len(s) <= Len(t) /\ SubSeq(t, 1, Len(s)) = s

\* C12: total_confidence is the arithmetic mean of the confidences of all
\* steps in reasoning_steps, and 0 when there is no step, in every state and so
\* after every append.
C12_TotalConfidenceIsMean ==
    IF state.reasoning_steps = <<>>
    THEN state.total_confidence = 0
    ELSE state.total_confidence * Len(state.reasoning_steps)
             = SumConfidence(state.reasoning_steps)

\* C12 witness: three steps of confidences 0.5, 0.8 and 0.9 in this order;
\* the mean is 2.2 / 3.
C12_Witness ==
    /\ pc = "session"
    /\ Len(state.reasoning_steps) = 3
    /\ state.reasoning_steps[1].confidence = LLMFallbackConfidence
    /\ state.reasoning_steps[2].confidence = PlanningConfidence
    /\ state.reasoning_steps[3].confidence = DataConfidenceComplete
    /\ state.total_confidence = 4400

\* C13: reasoning_steps is append-only: every operation leaves the steps it
\* found in place and in order, and what it adds comes after them.
C13_ReasoningStepsAppendOnly ==
    [][IsPrefix(state.reasoning_steps, state'.reasoning_steps)]_vars

\* C13 witness: three steps appended in the order feedback, planning,
\* execution, with errors recorded as well, stand in that order.
C13_Witness ==
    /\ pc = "session"
    /\ Len(state.reasoning_steps) = 3
    /\ state.reasoning_steps[1].phase = "feedback"
    /\ state.reasoning_steps[2].phase = "planning"
    /\ state.reasoning_steps[3].phase = "execution"
    /\ state.error_messages # <<>>

\* C14: has_errors, once true, stays true, and error_messages only grows: the
\* list before any operation is a prefix of the list after it.
C14_ErrorsNeverReset ==
    [][/\ state.has_errors => state'.has_errors
       /\ IsPrefix(state.error_messages, state'.error_messages)]_vars

\* C14 witness: the three phases each recorded an error, one after the other.
C14_Witness ==
    /\ pc = "return"
    /\ state.has_errors
    /\ Len(state.error_messages) = 3

\* C15: is_complete is true only after the Feedback phase has run to its end
\* without an exception: whenever the flag is true, process_query is past
\* Feedback, Feedback left its steps and recorded no error.
C15_CompleteOnlyAfterFeedbackSucceeded ==
    state.is_complete =>
        /\ pc \in AfterFeedback
        /\ PhaseSteps("feedback") # {}
        /\ PhaseErrors("feedback") = {}

\* C15 witness: Feedback raised, process_query is about to return, and the
\* flag is not set.
C15_Witness ==
    /\ pc = "return"
    /\ PhaseErrors("feedback") # {}
    /\ ~state.is_complete

\* C16: the Feedback phase obtains recommendations from the LLM and merges
\* them into state.recommendations: once Feedback is over, its output is stored
\* and every recommendation of that output is in state.recommendations.
\* (Stated as the claim; the code violates it.)
C16_FeedbackMergesRecommendations ==
    pc \in AfterFeedback =>
        /\ HasKey(state.processed_data, "final_feedback")
        /\ LET recs == Get(state.processed_data["final_feedback"], "recommendations", <<>>)
           IN  \A i \in 1..Len(recs) : InSeq(recs[i], state.recommendations)

\* The metric set under analysis as a list of items, and the threshold table
\* of the rule engine.
ObservedMetrics ==
    LET given == Get(metrics, "metrics", [type |-> "dict", items |-> <<>>])
    IN  IF given.type = "dict" THEN given.items ELSE <<>>

Thresholds ==
    Get(Get(rules, "protocol_rules", EmptyDict), "metric_thresholds", EmptyDict)

\* The severities of the issues the latest analysis reports for a metric.
SeveritiesOf(name) ==
    LET OfMetric(issue) == issue.metric = name
        found == SelectSeq(analysis.issues, OfMetric)
    IN  [i \in 1..Len(found) |-> found[i].severity]

\* C17: each observed metric with a threshold entry is reported as critical
\* when its value is at or above the critical threshold, as warning when it is
\* at or above the warning threshold and below the critical one, and not at all
\* when it is below the warning threshold.
C17_ThresholdClassification ==
    (pc = "rule_engine" /\ Now > 0) =>
        \A i \in 1..Len(ObservedMetrics) :
            LET name == ObservedMetrics[i].name
                value == ObservedMetrics[i].value
            IN  name \in DOMAIN Thresholds =>
                    LET rule == Thresholds[name]
                        has_warning == "warning" \in DOMAIN rule
                        has_critical == "critical" \in DOMAIN rule
                    IN  /\ (has_critical /\ value >= rule.critical)
                               => SeveritiesOf(name) = <<"critical">>
                        /\ (has_warning /\ value >= rule.warning
                                /\ (has_critical => value < rule.critical))
                               => SeveritiesOf(name) = <<"warning">>
                        /\ (has_warning /\ value < rule.warning)
                               => SeveritiesOf(name) = <<>>

\* C17 witness: with warning 80 and critical 90, cpu_usage 90 is reported as
\* critical against the threshold 90.
C17_Witness ==
    /\ pc = "rule_engine"
    /\ Now > 0
    /\ \E i \in 1..Len(ObservedMetrics) :
           ObservedMetrics[i] = [name |-> "cpu_usage", value |-> 90]
    /\ \E i \in 1..Len(analysis.issues) :
           analysis.issues[i] = Issue("cpu_usage", 90, 90, "critical")

\* C18: the status of an analysis is critical if one of its issues is
\* critical, otherwise warning if it has an issue at all, those of the service
\* limits included, and otherwise healthy.
C18_OverallStatus ==
    (pc = "rule_engine" /\ Now > 0) =>
        LET issues == analysis.issues
            critical == \E i \in 1..Len(issues) : issues[i].severity = "critical"
        IN  /\ analysis.status = "critical" <=> critical
            /\ analysis.status = "warning" <=> (~critical /\ Len(issues) > 0)
            /\ analysis.status = "healthy" <=> Len(issues) = 0
            /\ analysis.total_issues = Len(issues)

\* C18 witness: the only issue is a service limit exceeded, and the status is
\* warning.
C18_Witness ==
    /\ pc = "rule_engine"
    /\ Now > 0
    /\ analysis.issues = <<Issue("requests_per_second", 150, 100, "warning")>>
    /\ analysis.status = "warning"

StepsOf(st, phase) ==
    {i \in 1..Len(st.reasoning_steps) : st.reasoning_steps[i].phase = phase}

ErrorsOf(st, phase) ==
    {i \in 1..Len(st.error_messages) : st.error_messages[i].phase = phase}

RanIn(st, phase) == StepsOf(st, phase) # {} \/ ErrorsOf(st, phase) # {}

\* C20: concurrent requests share no pipeline state.  Each request that has
\* begun runs on an AIOrchestrator, a DataAgent and a ReasoningState no other
\* request uses, and its ReasoningState shows its own progress only: nothing
\* before its Planning has acted, nothing of a phase it has not reached, its
\* phases in the order Planning, Execution, Feedback with one error at most
\* each, and at the end the answer extracted from that state.
C20_ConcurrentRequestsIsolated ==
    pc = "server" =>
        \A r \in Requests :
            LET f == requests[r]
            IN  f.pc # "arrived" =>
                    /\ f.self \in DOMAIN orchestrators
                    /\ f.state \in DOMAIN objects
                    /\ \A q \in Requests \ {r} :
                           requests[q].pc # "arrived" =>
                               /\ requests[q].self # f.self
                               /\ orchestrators[requests[q].self].data_agent
                                      # orchestrators[f.self].data_agent
                               /\ requests[q].state # f.state
                    /\ LET st == objects[f.state]
                       IN  /\ \A i, j \in 1..Len(st.reasoning_steps) :
                                  i < j => PhaseRank(st.reasoning_steps[i].phase)
                                               <= PhaseRank(st.reasoning_steps[j].phase)
                           /\ \A i, j \in 1..Len(st.error_messages) :
                                  i < j => PhaseRank(st.error_messages[i].phase)
                                               < PhaseRank(st.error_messages[j].phase)
                           /\ f.pc = "planning" => st = NewReasoningState
                           /\ f.pc \notin AfterPlanning =>
                                  ~RanIn(st, "execution") /\ ~RanIn(st, "feedback")
                           /\ f.pc \notin AfterExecution => ~RanIn(st, "feedback")
                           /\ f.pc \in AfterFeedback => \A p \in Phases : RanIn(st, p)
                           /\ f.pc = "done" => f.answer = ExtractAnswer(st)

\* C20 witness: request 1 began first and has reached Feedback with the errors
\* of its Planning and Execution; request 2 began later, replacing the module
\* global, and waits for its Planning LLM on an untouched state of its own.
C20_Witness ==
    /\ pc = "server"
    /\ requests[1].pc = "feedback"
    /\ requests[2].pc = "planning_parse"
    /\ requests[1].self = 1
    /\ orchestrator = 2
    /\ Len(objects[requests[1].state].error_messages) = 2
    /\ objects[requests[2].state] = NewReasoningState

\* C21: appending a reasoning step sets current_phase to that step's phase, so
\* current_phase is the phase of the latest step.  (Stated as the claim; the
\* code violates it.)
C21_CurrentPhaseFollowsLatestStep ==
    state.reasoning_steps # <<>> =>
        state.current_phase = state.reasoning_steps[Len(state.reasoning_steps)].phase

\* C22: a step recorded from the fallback of an LLM answer that could not be
\* parsed carries a confidence lower than the step of a parsed answer.
\* (Stated as the claim for the Planning answer, whose parsed-path confidence
\* is PlanningConfidence; the code violates it.)
C22_FallbackStepHasLowerConfidence ==
    (pc \in AfterPlanning /\ llm_outcome.planning \in {"not_json", "json_missing_key"}) =>
        \E i \in PhaseSteps("planning") :
            state.reasoning_steps[i].confidence < PlanningConfidence

\* C23: every phase that ran leaves at least one reasoning step, also when it
\* failed: once process_query's try block is over, reasoning_steps holds a step
\* of each of the three phases.  (Stated as the claim; the code violates it.)
C23_EveryPhaseLeavesAStep ==
    pc \in AfterFeedback => \A p \in Phases : PhaseSteps(p) # {}

\* C25: each phase commits its result to processed_data under its own key:
\* once a phase is over its key is present, so that after Feedback the keys
\* planning, execution and final_feedback are all there.  (Stated as the claim;
\* the code violates it.)
C25_EachPhaseCommitsUnderItsKey ==
    /\ pc \in AfterPlanning => HasKey(state.processed_data, "planning")
    /\ pc \in AfterExecution => HasKey(state.processed_data, "execution")
    /\ pc \in AfterFeedback => HasKey(state.processed_data, "final_feedback")

\* C26: within Execution the events come in a fixed order: the data step
\* after the collector calls, then the rule-analysis step, then the LLM step,
\* then the commit of the execution artifact; so once Execution is over its
\* steps are those of DataAgent, ProtocolAgent and LLMAnalyst in that order
\* and the artifact is in processed_data.  (Stated as the claim; the code
\* violates it.)
C26_ExecutionEventsInOrder ==
    /\ pc = "collect" => PhaseSteps("execution") = {}
    /\ pc \in AfterExecution =>
           /\ \E i, j, k \in PhaseSteps("execution") :
                  /\ i < j /\ j < k
                  /\ state.reasoning_steps[i].agent_name = "DataAgent"
                  /\ state.reasoning_steps[j].agent_name = "ProtocolAgent"
                  /\ state.reasoning_steps[k].agent_name = "LLMAnalyst"
           /\ HasKey(state.processed_data, "execution")

C30_ErrorFlagMatchesMessagesAndErrorsTouchNothingElse ==
    /\ [](state.has_errors <=> (state.error_messages # <<>>))
    /\ [][state'.error_messages # state.error_messages =>
              /\ state'.reasoning_steps = state.reasoning_steps
              /\ state'.total_confidence = state.total_confidence
              /\ state'.processed_data = state.processed_data]_vars

\* C30 witness: a session holding one step of confidence 0.8 and two recorded
\* errors; the flag is set and total_confidence is that of the step.
C30_Witness ==
    /\ pc = "session"
    /\ state.has_errors
    /\ Len(state.error_messages) = 2
    /\ Len(state.reasoning_steps) = 1
    /\ state.reasoning_steps[1].confidence = PlanningConfidence
    /\ state.total_confidence = PlanningConfidence

\* C24: the collection loop acts on the six tags of its vocabulary only: a
\* tag outside it causes no collector call, appears neither among the
\* successful nor among the failed tags nor in raw_data, and sets no error;
\* the tags before and after it are handled as usual.
C24_UnknownTagsAreSkipped ==
    pc \in {"collect", "analyze"} =>
        /\ \A i \in 1..Len(successful_types) : successful_types[i] \in MetricTags \cup LogTags
        /\ \A i \in 1..Len(failed_types) : failed_types[i] \in MetricTags \cup LogTags
        /\ DOMAIN raw_data \subseteq MetricTags \cup LogTags
        /\ \A i \in 1..(idx - 1) :
               data_requirements[i] \in MetricTags \cup LogTags
                   <=> (InSeq(data_requirements[i], successful_types)
                            \/ InSeq(data_requirements[i], failed_types))
        /\ state.error_messages = <<>>

\* C24 witness: the requirements were error_logs followed by the unknown tag
\* "metrics"; the loop is over, error_logs was attempted, "metrics" left no
\* trace and no error is recorded.
C24_Witness ==
    /\ pc = "analyze"
    /\ data_requirements = <<"error_logs", "metrics">>
    /\ Len(successful_types) + Len(failed_types) = 1
    /\ ~InSeq("metrics", successful_types)
    /\ ~InSeq("metrics", failed_types)
    /\ state.error_messages = <<>>

\* C29: the list of data requirements the keyword fallback returns for a
\* query is not empty, holds no tag twice and holds only tags of the six-tag
\* vocabulary of the collection loop; for a query with no keyword it is
\* exactly cpu_metrics, memory_metrics.  (Observed where Execution applies the
\* fallback to its query: planning_results was no dictionary.)
C29_FallbackRequirementsWellFormed ==
    (pc \in {"collect", "analyze"} /\ ~IsDict(state.planning_results)) =>
        /\ data_requirements # <<>>
        /\ \A i, j \in 1..Len(data_requirements) :
               data_requirements[i] = data_requirements[j] => i = j
        /\ \A i \in 1..Len(data_requirements) :
               data_requirements[i] \in MetricTags \cup LogTags
        /\ user_query \cap AllKeywords = {} =>
               data_requirements = <<"cpu_metrics", "memory_metrics">>

\* C29 witness: Execution applied the fallback to "why is the server slow?",
\* whose two keywords both ask for cpu_metrics and memory_metrics, and got
\* five distinct tags.
C29_Witness ==
    /\ pc = "collect"
    /\ ~IsDict(state.planning_results)
    /\ user_query = ServerSlowQuery
    /\ data_requirements = <<"performance_logs", "cpu_metrics", "memory_metrics",
                             "disk_metrics", "network_metrics">>

\* The level analyze_error_log read from the record it analyzed.
AnalyzedLevel == Get(error_log, "level", <<"INFO">>)[1]

\* C28 as stated: the severity of a log record is high for the levels
\* CRITICAL and FATAL, medium for WARNING and WARN, and low for every other
\* level, ERROR and INFO included, in any letter case.  (The code violates it
\* for ERROR.)
C28_SeverityAsStated ==
    log_analysis # EmptyDict =>
        log_analysis["severity"] =
            <<IF AnalyzedLevel \in {"CRITICAL", "critical", "FATAL", "Fatal"} THEN "high"
              ELSE IF AnalyzedLevel \in {"WARNING", "warning", "WARN", "warn"} THEN "medium"
              ELSE "low">>

\* C28, amended: the severity of a log record is high for the levels ERROR,
\* CRITICAL and FATAL, medium for WARNING and WARN, and low for every other
\* level (INFO, DEBUG, a missing level), in any letter case.
C28_SeverityByLevel ==
    log_analysis # EmptyDict =>
        log_analysis["severity"] =
            <<IF AnalyzedLevel \in {"CRITICAL", "critical", "FATAL", "Fatal",
                                    "ERROR", "error", "Error"} THEN "high"
              ELSE IF AnalyzedLevel \in {"WARNING", "warning", "WARN", "warn"} THEN "medium"
              ELSE "low">>

\* C28 witness: a record of level "Error" was analyzed and got severity high.
C28_Witness ==
    /\ pc = "log_engine"
    /\ HasKey(error_log, "level")
    /\ error_log["level"] = <<"Error">>
    /\ log_analysis # EmptyDict
    /\ log_analysis["severity"] = <<"high">>

====
